---- MODULE Spec2Model ----
(***************************************************************************)
(* Model of qualifier.py: is_unique, get_tile, valid_input and             *)
(* rearrange_tiles.  Images are functions from pixel coordinates <<x, y>>  *)
(* to pixel values.  The code never inspects a pixel value, so the source  *)
(* image carries a distinct non-zero label on every pixel: any pixel that  *)
(* is moved, lost or left at the fill value 0 of Image.new is observable.  *)
(***************************************************************************)
EXTENDS Integers, Sequences, FiniteSets, TLC

\* Bounds of the model.
MaxDim == 4
MaxTile == 2
MaxLen == 4

VARIABLES
    pc,            \* position of the caller / of rearrange_tiles
    image_size,    \* argument: (image_width, image_height)
    tile_size,     \* argument: (tile_width, tile_height)
    ordering,      \* argument: the caller's ordering list
    result,        \* outcome of the call: a returned value or the exception raised
    image,         \* pixels of the opened source image
    image_open,    \* the source image is held (opened, not yet closed)
    out_image,     \* pixels of the destination buffer
    out_open,      \* the destination buffer is held
    validated,     \* "pending", "passed", "failed" (valid_input returned False), "fault"
    tiles,         \* local list tiles
    out_tiles,     \* local list out_tiles
    i, j,          \* loop counters of the nested loops
    pasted,        \* number of paste calls made on the destination buffer
    writes,        \* per destination pixel: how many times paste wrote it
    file,          \* pixels saved under out_path (empty while nothing is saved)
    run,           \* 1: first call, 2: call on the file the first call saved
    original,      \* source image of the first call
    first_ordering \* ordering of the first call

vars == <<pc, image_size, tile_size, ordering, result, image, image_open, out_image,
          out_open, validated, tiles, out_tiles, i, j, pasted, writes, file, run,
          original, first_ordering>>

----------------------------------------------------------------------------
\* Python integer arithmetic

\* a // b for b # 0 (floor division; TLC's \div floors for either sign)
floordiv(a, b) == a \div b

\* a % b for b # 0 (the result takes the sign of the divisor)
mod(a, b) == a - b * floordiv(a, b)

Ret(b) == IF b THEN "True" ELSE "False"

----------------------------------------------------------------------------
\* is_unique

RECURSIVE insert(_, _)
insert(el, s) ==
    IF s = <<>> THEN <<el>>
    ELSE IF el <= Head(s) THEN <<el>> \o s
    ELSE <<Head(s)>> \o insert(el, Tail(s))

RECURSIVE sorted(_)
sorted(s) == IF s = <<>> THEN <<>> ELSE insert(Head(s), sorted(Tail(s)))

\* Variant of is_unique that compares the list to its indices without sorting it
is_unique_unsorted(collection) ==
    \A n \in 1..Len(collection) : collection[n] = n - 1

\* all(i == el for i, el in enumerate(sorted(collection)))
is_unique(collection) ==
    LET sorted_collection == sorted(collection)
    IN  \A n \in 1..Len(sorted_collection) : sorted_collection[n] = n - 1

\* The caller's list object after is_unique returns: sorted() builds a new list
\* and line 10 only rebinds the local name.
is_unique_argument_after(collection) == collection

----------------------------------------------------------------------------
\* valid_input: "True", "False", or the exception lines 39-40 raise

\* Variant of valid_input that leaves out the check of the image height
valid_input_ignoring_height(size, tsize, ord) ==
    IF tsize[2] = 0 \/ tsize[1] = 0 THEN "ZeroDivisionError"
    ELSE Ret(/\ mod(size[1], tsize[1]) = 0
             /\ Len(ord) = floordiv(size[2], tsize[2]) * floordiv(size[1], tsize[1])
             /\ is_unique(ord))

valid_input(size, tsize, ord) ==
    LET image_width == size[1]
        image_height == size[2]
        tile_width == tsize[1]
        tile_height == tsize[2]
    IN  IF tile_height = 0 \/ tile_width = 0 THEN "ZeroDivisionError"
        ELSE LET tile_rows == floordiv(image_height, tile_height)
                 tile_cols == floordiv(image_width, tile_width)
             IN  Ret(/\ mod(image_width, tile_width) = 0
                     /\ mod(image_height, tile_height) = 0
                     /\ Len(ord) = tile_rows * tile_cols
                     /\ is_unique(ord))

----------------------------------------------------------------------------
\* Input domains

Lists(vals) == UNION {[1..n -> vals] : n \in 0..MaxLen}
ImageSizes == (1..MaxDim) \X (1..MaxDim)
TileSizes == ((0 - MaxTile)..MaxTile) \X ((0 - MaxTile)..MaxTile)

NoImage == [p \in {} |-> 0]
Pixels(size) == (0..(size[1] - 1)) \X (0..(size[2] - 1))

\* Source image whose pixel at (x, y) carries the label y * width + x + 1
Labelled(size) == [p \in Pixels(size) |-> p[2] * size[1] + p[1] + 1]

\* Variant of new that starts the destination as a copy of the source pixels
new_copy_of_source(size) == Labelled(size)

\* Image.new(mode, size): every pixel holds the fill value 0
new(size) == [p \in Pixels(size) |-> 0]

IsPermutation(ord) ==
    /\ \A n \in 1..Len(ord) : ord[n] \in 0..(Len(ord) - 1)
    /\ \A m, n \in 1..Len(ord) : ord[m] = ord[n] => m = n

PermutationsOf(n) == {ord \in [1..n -> 0..(n - 1)] : IsPermutation(ord)}

\* Orderings a caller passes: every permutation of [0, n) for n <= MaxLen, and
\* every list made from one by overwriting its last element with a value of
\* 0..n (a duplicate, or the out-of-range value n)
Orderings ==
    UNION {{[k \in 1..n |-> IF k = n THEN v ELSE ord[k]] :
               ord \in PermutationsOf(n), v \in 0..n} : n \in 0..MaxLen}

\* The inverse of a permutation ord of [0, n): inverse[ord[k]] = k
inverse(ord) ==
    [n \in 1..Len(ord) |-> (CHOOSE m \in 1..Len(ord) : ord[m] = n - 1) - 1]

\* Lists handed to is_unique: negative, duplicate and out-of-range values included
Collections == Lists((0 - 1)..MaxLen)

----------------------------------------------------------------------------
\* Collaborator: the image codec

\* image.crop((left, upper, right, lower)): a copy; pixels outside the image are 0
crop(im, left, upper, right, lower) ==
    [p \in (0..(right - left - 1)) \X (0..(lower - upper - 1)) |->
        IF <<left + p[1], upper + p[2]>> \in DOMAIN im
        THEN im[<<left + p[1], upper + p[2]>>] ELSE 0]

\* im.paste(tile, (x, y)): the pixels of tile overwrite im from (x, y) on
paste(im, tile, x, y) ==
    [p \in DOMAIN im |->
        IF <<p[1] - x, p[2] - y>> \in DOMAIN tile
        THEN tile[<<p[1] - x, p[2] - y>>] ELSE im[p]]

\* bookkeeping of paste: the pixels a paste writes are counted once more
count_paste(w, tile, x, y) ==
    [p \in DOMAIN w |->
        IF <<p[1] - x, p[2] - y>> \in DOMAIN tile THEN w[p] + 1 ELSE w[p]]

----------------------------------------------------------------------------
\* get_tile

get_tile(im, tsize, col, row) ==
    LET tile_width == tsize[1]
        tile_height == tsize[2]
        x == tile_width * col
        y == tile_height * row
    IN  crop(im, x, y, x + tile_width, y + tile_height)

----------------------------------------------------------------------------
\* rearrange_tiles

tile_rows == floordiv(image_size[2], tile_size[2])
tile_cols == floordiv(image_size[1], tile_size[1])

\* Variant of with_exit that closes the source only
with_exit_leaking_out == image_open' = FALSE /\ out_open' = out_open

\* Leaving the with block (lines 65-68), normally or by an exception, closes
\* both images.
with_exit == image_open' = FALSE /\ out_open' = FALSE

\* lines 65-68: open the source, allocate the destination of the same size
Enter(size, tsize, ord, pixels) ==
    /\ image_size' = size
    /\ tile_size' = tsize
    /\ ordering' = ord
    /\ image' = pixels
    /\ image_open' = TRUE
    /\ out_image' = new(size)
    /\ out_open' = TRUE
    /\ pasted' = 0
    /\ writes' = [p \in Pixels(size) |-> 0]
    /\ validated' = "pending"
    /\ result' = "none"
    /\ tiles' = <<>>
    /\ out_tiles' = <<>>
    /\ i' = 0
    /\ j' = 0
    /\ pc' = "entered"

\* first call of rearrange_tiles
Call ==
    /\ pc = "idle"
    /\ \E size \in ImageSizes, tsize \in TileSizes, ord \in Orderings :
          /\ Enter(size, tsize, ord, Labelled(size))
          /\ original' = Labelled(size)
          /\ first_ordering' = ord
    /\ UNCHANGED <<file, run>>

\* second call, undoing the first: the image the first call saved, the same
\* tile size, the inverse of the first ordering
CallAgain ==
    /\ pc = "returned"
    /\ run = 1
    /\ Enter(image_size, tile_size, inverse(ordering), file)
    /\ run' = 2
    /\ file' = NoImage
    /\ UNCHANGED <<original, first_ordering>>

\* lines 72-73: a zero tile dimension raises ZeroDivisionError
GridFault ==
    /\ pc = "entered"
    /\ tile_size[2] = 0 \/ tile_size[1] = 0
    /\ result' = "ZeroDivisionError"
    /\ validated' = "fault"
    /\ pc' = "raised"
    /\ with_exit
    /\ UNCHANGED <<image_size, tile_size, ordering, image, out_image, tiles, out_tiles,
                   i, j, pasted, writes, file, run, original,
                   first_ordering>>

\* Variant of ValidationFails that returns normally instead of raising
ValidationFails_returning ==
    /\ pc = "entered"
    /\ tile_size[2] # 0 /\ tile_size[1] # 0
    /\ valid_input(image_size, tile_size, ordering) = "False"
    /\ result' = "None"
    /\ validated' = "failed"
    /\ pc' = "returned"
    /\ with_exit
    /\ UNCHANGED <<image_size, tile_size, ordering, image, out_image, tiles, out_tiles,
                   i, j, pasted, writes, file, run, original, first_ordering>>

\* lines 75-78: valid_input returned False
ValidationFails ==
    /\ pc = "entered"
    /\ tile_size[2] # 0 /\ tile_size[1] # 0
    /\ valid_input(image_size, tile_size, ordering) = "False"
    /\ result' = "ValueError"
    /\ validated' = "failed"
    /\ pc' = "raised"
    /\ with_exit
    /\ UNCHANGED <<image_size, tile_size, ordering, image, out_image, tiles, out_tiles,
                   i, j, pasted, writes, file, run, original,
                   first_ordering>>

\* lines 75, 80-81: valid_input returned True
ValidationPasses ==
    /\ pc = "entered"
    /\ tile_size[2] # 0 /\ tile_size[1] # 0
    /\ valid_input(image_size, tile_size, ordering) = "True"
    /\ validated' = "passed"
    /\ tiles' = <<>>
    /\ out_tiles' = <<>>
    /\ i' = 0
    /\ j' = 0
    /\ pc' = "extract"
    /\ UNCHANGED <<image_size, tile_size, ordering, result, image, image_open, out_image,
                   out_open, pasted, writes, file, run, original, first_ordering>>

\* Variant of out_tiles_of that sends source tile k to slot ordering[k]
out_tiles_of_scattered(t, ord) ==
    [k \in 1..Len(t) |-> t[CHOOSE m \in 1..Len(t) : ord[m] = k - 1]]

\* lines 88-89: out_tiles[k] = tiles[ordering[k]] for k in range(len(tiles))
out_tiles_of(t, ord) == [k \in 1..Len(t) |-> t[ord[k] + 1]]

\* line 94: the list index and the pixel position of the tile pasted in
\* iteration (i, j) = (row, col); the variants index column-major and swap the
\* row and the column of the position
paste_index_column_major(row, col) == col * tile_rows + row
paste_index(row, col) == row * tile_cols + col
paste_position_swapped(row, col) == <<tile_size[1] * row, tile_size[2] * col>>
paste_position(row, col) == <<tile_size[1] * col, tile_size[2] * row>>

\* the nested loops of lines 83-84 and 91-92 still have an iteration to run
InLoop == i < tile_rows /\ j < tile_cols

\* lines 83-86: one iteration of the extraction loops
ExtractTile ==
    /\ pc = "extract"
    /\ InLoop
    /\ tiles' = Append(tiles, get_tile(image, tile_size, j, i))
    /\ IF j + 1 < tile_cols THEN j' = j + 1 /\ i' = i ELSE j' = 0 /\ i' = i + 1
    /\ UNCHANGED <<pc, image_size, tile_size, ordering, result, image, image_open,
                   out_image, out_open, validated, out_tiles, pasted, writes, file,
                   run, original, first_ordering>>

\* lines 88-89: out_tiles[k] = tiles[ordering[k]]
BuildOutTiles ==
    /\ pc = "extract"
    /\ ~InLoop
    /\ out_tiles' = out_tiles_of(tiles, ordering)
    /\ i' = 0
    /\ j' = 0
    /\ pc' = "paste"
    /\ UNCHANGED <<image_size, tile_size, ordering, result, image, image_open, out_image,
                   out_open, validated, tiles, pasted, writes, file, run, original,
                   first_ordering>>

\* lines 91-95: one iteration of the paste loops
PasteTile ==
    /\ pc = "paste"
    /\ InLoop
    /\ LET tile == out_tiles[paste_index(i, j) + 1]
           at == paste_position(i, j)
       IN  /\ out_image' = paste(out_image, tile, at[1], at[2])
           /\ writes' = count_paste(writes, tile, at[1], at[2])
    /\ pasted' = pasted + 1
    /\ IF j + 1 < tile_cols THEN j' = j + 1 /\ i' = i ELSE j' = 0 /\ i' = i + 1
    /\ UNCHANGED <<pc, image_size, tile_size, ordering, result, image, image_open,
                   out_open, validated, tiles, out_tiles, file, run, original,
                   first_ordering>>

\* line 97 and the normal exit of the with block
Save ==
    /\ pc = "paste"
    /\ ~InLoop
    /\ file' = out_image
    /\ result' = "None"
    /\ pc' = "returned"
    /\ with_exit
    /\ UNCHANGED <<image_size, tile_size, ordering, image, out_image, validated, tiles,
                   out_tiles, i, j, pasted, writes, run, original, first_ordering>>

\* crop (line 24), paste (line 93) or save (line 97) raises: the exception
\* propagates through the with block
CodecFails ==
    /\ \/ pc = "extract" /\ InLoop
       \/ pc = "paste"
    /\ result' = "CodecError"
    /\ pc' = "raised"
    /\ with_exit
    /\ UNCHANGED <<image_size, tile_size, ordering, image, out_image, validated, tiles,
                   out_tiles, i, j, pasted, writes, file, run, original,
                   first_ordering>>

\* A caller applies is_unique to a list
Call_is_unique ==
    /\ pc = "idle"
    /\ \E collection \in Collections :
          /\ first_ordering' = collection
          /\ ordering' = is_unique_argument_after(collection)
          /\ result' = Ret(is_unique(collection))
    /\ pc' = "is_unique"
    /\ UNCHANGED <<image_size, tile_size, image, image_open, out_image, out_open,
                   validated, tiles, out_tiles, i, j, pasted, writes, file, run, original>>

\* A caller applies valid_input to an image size, a tile size and an ordering
Call_valid_input ==
    /\ pc = "idle"
    /\ \E size \in ImageSizes, tsize \in TileSizes, ord \in Orderings :
          /\ image_size' = size
          /\ tile_size' = tsize
          /\ ordering' = ord
          /\ first_ordering' = ord
          /\ result' = valid_input(size, tsize, ord)
    /\ pc' = "valid_input"
    /\ UNCHANGED <<image, image_open, out_image, out_open, validated, tiles, out_tiles,
                   i, j, pasted, writes, file, run, original>>

Init ==
    /\ pc = "idle"
    /\ image_size = <<1, 1>>
    /\ tile_size = <<1, 1>>
    /\ ordering = <<>>
    /\ result = "none"
    /\ image = NoImage
    /\ image_open = FALSE
    /\ out_image = NoImage
    /\ out_open = FALSE
    /\ validated = "pending"
    /\ tiles = <<>>
    /\ out_tiles = <<>>
    /\ i = 0
    /\ j = 0
    /\ pasted = 0
    /\ writes = NoImage
    /\ file = NoImage
    /\ run = 1
    /\ original = NoImage
    /\ first_ordering = <<>>

Next ==
    \/ Call
    \/ CallAgain
    \/ GridFault
    \/ ValidationFails
    \/ ValidationPasses
    \/ ExtractTile
    \/ BuildOutTiles
    \/ PasteTile
    \/ Save
    \/ CodecFails

Spec == Init /\ [][Next]_vars

\* is_unique alone, and valid_input alone, applied to every input of the bounds
NextUnique == Call_is_unique
SpecUnique == Init /\ [][NextUnique]_vars

NextValid == Call_valid_input
SpecValid == Init /\ [][NextValid]_vars

----------------------------------------------------------------------------
\* Properties

tile_width == tile_size[1]
tile_height == tile_size[2]
Terminal == pc \in {"returned", "raised"}
PositiveTile == tile_width > 0 /\ tile_height > 0
Identity(n) == [k \in 1..n |-> k - 1]

\* every integer of [0, Len(L)) appears exactly once in L and nothing else appears
EachOnce(L) ==
    /\ \A v \in 0..(Len(L) - 1) : Cardinality({n \in 1..Len(L) : L[n] = v}) = 1
    /\ \A n \in 1..Len(L) : L[n] >= 0 /\ L[n] < Len(L)

\* C1: when rearrange_tiles has saved, for every output slot k the tile-sized
\* region of the saved buffer at (tw * (k % tile_cols), th * (k div tile_cols))
\* holds exactly the pixels of the source region at
\* (tw * (ordering[k] % tile_cols), th * (ordering[k] div tile_cols)),
\* where tile_cols = W div tw.
C1_SlotHoldsOrderedTile ==
    pc = "returned" =>
        /\ DOMAIN file = DOMAIN image
        /\ \A k \in 0..(Len(ordering) - 1) :
             \A dx \in 0..(tile_width - 1), dy \in 0..(tile_height - 1) :
                LET cols == image_size[1] \div tile_width
                    src == ordering[k + 1]
                IN  file[<<tile_width * (k % cols) + dx,
                           tile_height * (k \div cols) + dy>>]
                      = image[<<tile_width * (src % cols) + dx,
                                tile_height * (src \div cols) + dy>>]

\* C1 witness: the 4x4 image with 2x2 tiles and ordering [1,0,3,2] is saved with
\* the top-right source tile in output slot 0.
C1_Witness ==
    /\ pc = "returned"
    /\ run = 1
    /\ image_size = <<4, 4>>
    /\ tile_size = <<2, 2>>
    /\ ordering = <<1, 0, 3, 2>>
    /\ file[<<0, 0>>] = image[<<2, 0>>]
    /\ file[<<1, 3>>] = image[<<3, 3>>]

\* C2: whenever valid_input returns False for (image size, tile size, ordering),
\* rearrange_tiles ends by raising ValueError, and on that path no tile has been
\* extracted or pasted and nothing has been saved.
C2_InvalidRaisesBeforeAnyOutput ==
    (/\ pc \notin {"idle", "entered"}
     /\ tile_width # 0
     /\ tile_height # 0
     /\ valid_input(image_size, tile_size, ordering) = "False")
    => /\ pc = "raised"
       /\ result = "ValueError"
       /\ tiles = <<>>
       /\ pasted = 0
       /\ \A p \in DOMAIN writes : writes[p] = 0
       /\ file = NoImage

\* C2 witness: the duplicate ordering [0,1,2,0] on the 4x4 image with 2x2 tiles
\* has been rejected.
C2_Witness ==
    /\ pc = "raised"
    /\ result = "ValueError"
    /\ image_size = <<4, 4>>
    /\ tile_size = <<2, 2>>
    /\ ordering = <<0, 1, 2, 0>>
    /\ file = NoImage

\* C3: for positive image and tile dimensions, valid_input returns True exactly
\* when W % tw = 0, H % th = 0, len(ordering) = (H div th) * (W div tw) and
\* ordering is a permutation of [0, len(ordering)); otherwise it returns False.
C3_ValidInputIffFourConditions ==
    (pc = "valid_input" /\ PositiveTile) =>
        /\ result \in {"True", "False"}
        /\ result = "True" <=>
              /\ image_size[1] % tile_width = 0
              /\ image_size[2] % tile_height = 0
              /\ Len(ordering) =
                    (image_size[2] \div tile_height) * (image_size[1] \div tile_width)
              /\ EachOnce(ordering)

\* C3 witness: a permutation of [0, 4) is accepted for the 4x2 image cut into
\* 2 rows and 2 columns of 2x1 tiles.
C3_Witness ==
    /\ pc = "valid_input"
    /\ image_size = <<4, 2>>
    /\ tile_size = <<2, 1>>
    /\ ordering = <<2, 0, 3, 1>>
    /\ result = "True"

\* C4: is_unique(L) returns True exactly when every integer of [0, len(L))
\* appears exactly once in L and nothing else appears; the empty list yields
\* True; the caller's list is left as it was passed.
C4_IsUniqueIffPermutation ==
    pc = "is_unique" =>
        /\ result = "True" <=> EachOnce(first_ordering)
        /\ first_ordering = <<>> => result = "True"
        /\ ordering = first_ordering

\* C4 witness: the unsorted permutation [2,0,1] is accepted and still unsorted.
C4_Witness ==
    /\ pc = "is_unique"
    /\ first_ordering = <<2, 0, 1>>
    /\ ordering = <<2, 0, 1>>
    /\ result = "True"

\* C5: with a zero tile dimension rearrange_tiles ends by raising ValueError
\* (the invalid-arrangement outcome), never by an arithmetic fault.
C5_ZeroTileIsInvalidArrangement ==
    (Terminal /\ (tile_width = 0 \/ tile_height = 0)) => result = "ValueError"

\* C6: for a tile size of positive dimensions that evenly divides the image
\* into N tiles, rearrange_tiles with the ordering [0, 1, ..., N-1] saves a
\* buffer of the same size whose every pixel equals the source pixel at the
\* same coordinates.
C6_IdentityOrderingCopiesImage ==
    (/\ pc = "returned"
     /\ PositiveTile
     /\ ordering = Identity(Len(ordering)))
    => /\ DOMAIN file = DOMAIN image
       /\ \A p \in DOMAIN image : file[p] = image[p]

\* C6 witness: the 4x4 image cut into four 2x2 tiles is saved under the
\* identity ordering.
C6_Witness ==
    /\ pc = "returned"
    /\ run = 1
    /\ image_size = <<4, 4>>
    /\ tile_size = <<2, 2>>
    /\ ordering = <<0, 1, 2, 3>>
    /\ file = Labelled(<<4, 4>>)

\* C7: for a tile size of positive dimensions that evenly divides the image and
\* a permutation P, rearranging by P and then rearranging the saved result by
\* the inverse of P (same tile size) saves an image identical, pixel for pixel,
\* to the original.
C7_InverseOrderingRestoresOriginal ==
    (/\ pc = "returned"
     /\ run = 2
     /\ PositiveTile
     /\ \A k \in 1..Len(first_ordering) : ordering[first_ordering[k] + 1] = k - 1)
    => /\ DOMAIN file = DOMAIN original
       /\ \A p \in DOMAIN original : file[p] = original[p]

\* C7 witness: the 4x4 image with 2x2 tiles, rearranged by the 4-cycle
\* [1,2,3,0] and then by its inverse [3,0,1,2], is the original again, the
\* intermediate image being a different one.
C7_Witness ==
    /\ pc = "returned"
    /\ run = 2
    /\ image_size = <<4, 4>>
    /\ tile_size = <<2, 2>>
    /\ first_ordering = <<1, 2, 3, 0>>
    /\ ordering = <<3, 0, 1, 2>>
    /\ image # original
    /\ file = original

\* C8: in every terminal state of rearrange_tiles (returned after save, or an
\* exception raised by validation, by the tile arithmetic or by crop, paste or
\* save) neither the source image nor the destination buffer is still held.
C8_ReleasedOnEveryExit ==
    Terminal => ~image_open /\ ~out_open

\* C8 witness: a codec failure after a tile was pasted has left both released.
C8_Witness ==
    /\ pc = "raised"
    /\ result = "CodecError"
    /\ pasted > 0
    /\ ~image_open
    /\ ~out_open

\* C9 as stated: the destination buffer is held only once validation has
\* succeeded.
C9_OutputAllocatedOnlyAfterValidation ==
    out_open => validated = "passed"

\* C9 amended: the destination buffer is allocated together with the opening of
\* the source, before validation; while validation has not been performed or
\* has not succeeded the buffer holds only the fill value, nothing has been
\* pasted or saved, and the buffer is held only while validation is pending.
C9_OutputUntouchedUntilValidated ==
    (pc # "idle" /\ validated # "passed") =>
        /\ DOMAIN out_image = Pixels(image_size)
        /\ \A p \in DOMAIN out_image : out_image[p] = 0
        /\ pasted = 0
        /\ file = NoImage
        /\ out_open <=> validated = "pending"
        /\ out_open => image_open

\* C9 witness: the destination buffer is held while validation is still pending.
C9_Witness ==
    /\ pc = "entered"
    /\ validated = "pending"
    /\ out_open
    /\ image_open
    /\ image_size = <<4, 4>>
    /\ \A p \in DOMAIN out_image : out_image[p] = 0

\* C10: whenever rearrange_tiles has saved, it extracted exactly len(ordering)
\* tiles and pasted exactly len(ordering) tiles, and every pixel of the saved
\* buffer was written exactly once.
C10_EveryPixelWrittenOnce ==
    pc = "returned" =>
        /\ Len(tiles) = Len(ordering)
        /\ pasted = Len(ordering)
        /\ \A p \in DOMAIN writes : writes[p] = 1

====
